---- MODULE Spec2Model ----
(***************************************************************************)
(* Briscas: a two-player trick-taking card game (briscas.py, games.py).    *)
(*                                                                         *)
(* The Briscas object holds the stock (cards), both hands and both scores  *)
(* as mutable fields; a GameState (to_move, utility, board, moves) is the  *)
(* value the driver threads through result().  A card is the source's      *)
(* three-element list [number, type, value], here a tuple                  *)
(* <<number, type, value>> (1-based: c[1] is the rank, c[2] the suit,      *)
(* c[3] the point value).                                                  *)
(***************************************************************************)
EXTENDS Integers, Sequences, FiniteSets, TLC

(***************************************************************************)
(* Bounds of the model.                                                    *)
(***************************************************************************)
\* shuffles of the deck tried by initGame: 0..MaxShuffle
MaxShuffle == 1
\* index drawn by random.randint when dealing: 0..MaxDealIndex
MaxDealIndex == 1
\* half-moves of one game at which the player picks another card than the
\* first card of its hand
MaxChoices == 1
\* samples of one search (the program runs range(0, 100))
MaxSamples == 2
\* searches followed in one game
MaxSearches == 2
\* cards left in each hand in the endgames given to the two searches
MaxEndgameCards == 3
\* characters of one line typed at the prompt of query_player
MaxInputLen == 2

(***************************************************************************)
(* Constants of the program.                                               *)
(***************************************************************************)
\* the depth limit of alphabeta_full_search
d == 10
\* float('inf'): larger than every score
infinity == 1000000

(***************************************************************************)
(* Cards and deck (Briscas.initGame).                                      *)
(***************************************************************************)
None == <<>>

Suits == <<"swords", "coins", "cups", "clubs">>

\* the ten cards initGame appends for one suit, in order
SuitCards(s) ==
  << <<1, s, 11>>, <<2, s, 0>>, <<3, s, 10>>, <<4, s, 0>>, <<5, s, 0>>,
     <<6, s, 0>>, <<7, s, 0>>, <<10, s, 2>>, <<11, s, 3>>, <<12, s, 4>> >>

\* self.cards after the forty appends
Deck == SuitCards(Suits[1]) \o SuitCards(Suits[2]) \o SuitCards(Suits[3]) \o SuitCards(Suits[4])

DeckSize == Len(Deck)

\* (variant: the card taken stays in the list)
PopAt_KeepsCard(seq, index) == [card |-> seq[index + 1], rest |-> seq]

\* list.pop(index), 0-based index: the element and the remaining list
PopAt(seq, index) ==
  [card |-> seq[index + 1],
   rest |-> SubSeq(seq, 1, index) \o SubSeq(seq, index + 2, Len(seq))]

\* the set of elements of a list
Range(seq) == {seq[i] : i \in 1..Len(seq)}

\* one outcome of the random.shuffle loop: a permutation of the deck
\* (k = 0: the loop ran zero times and the deck keeps its order)
Shuffle(k) == [p \in 1..DeckSize |-> Deck[(((p - 1) * (10 * k + 1) + k) % DeckSize) + 1]]

(***************************************************************************)
(* State.                                                                  *)
(***************************************************************************)
VARIABLES
  engine,   \* the program that runs: "briscas" (briscas.py) or "games"
            \* (games.py)
  game,     \* the live Briscas object: cards (the stock), playerAHand,
            \* playerBHand, playerAPoints, playerBPoints, trump (and, in
            \* games.py, leadingPlayer)
  state,    \* play_game's local variable state, a GameState
  pc,       \* play_game: "playing" inside the loop, "done" after it
            \* returned, "crashed" after an exception left it
  call,     \* the latest call of result: the Briscas object and the
            \* arguments it was given, the exception it raised, and
            \* whether the call was made a second time
  choices,  \* the half-moves so far that did not play the first card
  search,   \* alphabeta_full_search: its position (pc), its locals i,
            \* state, best_score, best_action, beta, the index j that
            \* random.randint drew for the cards of the sample, the index
            \* of a in the root loop, the value a node has just returned,
            \* the number of searches started in this game, and the
            \* values v the root loop has got so far, each with its sample
            \* i, the index j of that sample and its action a
  gameSim,  \* the Briscas object of the current sample
  stack,    \* the max_value / min_value calls in progress, outermost
            \* first: kind, state, alpha, beta, depth, v and the index of
            \* a in the loop
  cutoff,   \* the latest call of cutoff_test: its arguments, gameSim at
            \* the call, whether game.terminal_test was reached and what
            \* it returned
  query     \* query_player: its position (pc: "idle" outside a call,
            \* "prompt" after a line was refused, "returned", "raised"),
            \* its local index, the move it returned and the exception
            \* that left it

vars == <<engine, game, state, pc, call, choices, search, gameSim, stack, cutoff,
          query>>

(***************************************************************************)
(* Briscas.initGame: deal number (k, i) shuffles the deck with Shuffle(k)  *)
(* and draws index i (or the last index, when i is too large) at every     *)
(* random.randint of the deal.                                             *)
(***************************************************************************)
DealIndex(seq, i) == IF i <= Len(seq) - 1 THEN i ELSE Len(seq) - 1

\* n times self.cards.pop(index): the cards taken, in order, and the rest
RECURSIVE Deal(_, _, _)
Deal(seq, i, n) ==
  IF n = 0 THEN [taken |-> <<>>, rest |-> seq]
  ELSE LET p == PopAt(seq, DealIndex(seq, i))
           q == Deal(p.rest, i, n - 1)
       IN [taken |-> <<p.card>> \o q.taken, rest |-> q.rest]

\* the Briscas object and the initial GameState built from the seven cards
\* taken (three for A, three for B, the trump) and the stock left
Dealt(taken, stock) ==
  [game |-> [cards |-> stock,
             playerAHand |-> SubSeq(taken, 1, 3),
             playerBHand |-> SubSeq(taken, 4, 6),
             playerAPoints |-> 0, playerBPoints |-> 0, trump |-> taken[7]],
   initial |-> [to_move |-> "A", utility |-> 0,
                board |-> [playerAHand |-> SubSeq(taken, 1, 3),
                           playerAPlayedCard |-> None,
                           playerBPlayedCard |-> None,
                           cardsPlayed |-> <<>>,
                           cardsNotPlayed |-> stock \o SubSeq(taken, 4, 6),
                           trumpCard |-> taken[7],
                           playerAPoints |-> 0, playerBPoints |-> 0,
                           leadingPlayer |-> "None"],
                moves |-> SubSeq(taken, 1, 3)]]

initGame(k, i) == Dealt(Deal(Shuffle(k), i, 7).taken, Deal(Shuffle(k), i, 7).rest)

(***************************************************************************)
(* Briscas.actions, Briscas.terminal_test, Briscas.utility.  terminal_test *)
(* and utility read the Briscas object they are called on, not the state   *)
(* they are given.                                                         *)
(***************************************************************************)
actions(s) == s.moves

\* (variant: the game is over as soon as the stock is empty)
terminal_test_StockOnly(g, s) == Len(g.cards) = 0

terminal_test(g, s) ==
  Len(g.cards) = 0 /\ Len(g.playerAHand) = 0 /\ Len(g.playerBHand) = 0

utility(g, s, player) == g.playerAPoints

(***************************************************************************)
(* Briscas.result.                                                         *)
(***************************************************************************)
\* (variant: the winner is credited with the points of A's card only)
TrickPoints_OneCard(a, b) == a[3]

\* (variant: the winner is credited twice with the points of the trick)
TrickPoints_Twice(a, b) == 2 * (a[3] + b[3])

\* the points a resolved trick is worth: playerAPlayedCard[2] +
\* playerBPlayedCard[2]
TrickPoints(a, b) == a[3] + b[3]

\* (variant: the second card drawn stays in the stock)
DrawCards_KeepStock(g, winner, trumpCard) ==
  LET n == Len(g.cards)
      first == g.cards[n]
      second == IF n = 1 THEN trumpCard ELSE g.cards[n - 1]
      rest == SubSeq(g.cards, 1, n - 1)
  IN IF n # 0
     THEN IF winner = "A"
          THEN [g EXCEPT !.cards = rest,
                         !.playerAHand = Append(@, first),
                         !.playerBHand = Append(@, second)]
          ELSE [g EXCEPT !.cards = rest,
                         !.playerBHand = Append(@, first),
                         !.playerAHand = Append(@, second)]
     ELSE g

\* (variant: the loser of the trick that takes the last stock card gets
\* nothing)
DrawCards_NoTrump(g, winner, trumpCard) ==
  LET n == Len(g.cards)
      first == g.cards[n]
      second == IF n = 1 THEN <<>> ELSE <<g.cards[n - 1]>>
      rest == IF n = 1 THEN <<>> ELSE SubSeq(g.cards, 1, n - 2)
  IN IF n # 0
     THEN IF winner = "A"
          THEN [g EXCEPT !.cards = rest,
                         !.playerAHand = Append(@, first),
                         !.playerBHand = @ \o second]
          ELSE [g EXCEPT !.cards = rest,
                         !.playerBHand = Append(@, first),
                         !.playerAHand = @ \o second]
     ELSE g

\* (variant: the loser draws before the winner)
DrawCards_LoserFirst(g, winner, trumpCard) ==
  LET n == Len(g.cards)
      first == g.cards[n]
      second == IF n = 1 THEN trumpCard ELSE g.cards[n - 1]
      rest == IF n = 1 THEN <<>> ELSE SubSeq(g.cards, 1, n - 2)
  IN IF n # 0
     THEN IF winner = "A"
          THEN [g EXCEPT !.cards = rest,
                         !.playerBHand = Append(@, first),
                         !.playerAHand = Append(@, second)]
          ELSE [g EXCEPT !.cards = rest,
                         !.playerAHand = Append(@, first),
                         !.playerBHand = Append(@, second)]
     ELSE g

\* (variant: only the winner of the trick draws)
DrawCards_WinnerOnly(g, winner, trumpCard) ==
  LET n == Len(g.cards)
      first == g.cards[n]
      rest == SubSeq(g.cards, 1, n - 1)
  IN IF n # 0
     THEN IF winner = "A"
          THEN [g EXCEPT !.cards = rest, !.playerAHand = Append(@, first)]
          ELSE [g EXCEPT !.cards = rest, !.playerBHand = Append(@, first)]
     ELSE g

\* (variant: with an empty stock the loser is given the trump card again)
DrawCards_TrumpAgain(g, winner, trumpCard) ==
  LET n == Len(g.cards)
      first == g.cards[n]
      second == IF n = 1 THEN trumpCard ELSE g.cards[n - 1]
      rest == IF n = 1 THEN <<>> ELSE SubSeq(g.cards, 1, n - 2)
  IN IF n # 0
     THEN IF winner = "A"
          THEN [g EXCEPT !.cards = rest,
                         !.playerAHand = Append(@, first),
                         !.playerBHand = Append(@, second)]
          ELSE [g EXCEPT !.cards = rest,
                         !.playerBHand = Append(@, first),
                         !.playerAHand = Append(@, second)]
     ELSE IF winner = "A"
          THEN [g EXCEPT !.playerBHand = Append(@, trumpCard)]
          ELSE [g EXCEPT !.playerAHand = Append(@, trumpCard)]

\* (variant: the loser is given the trump card as soon as three cards or
\* fewer are left in the stock)
DrawCards_TrumpEarly(g, winner, trumpCard) ==
  LET n == Len(g.cards)
      first == g.cards[n]
      second == IF n <= 3 THEN trumpCard ELSE g.cards[n - 1]
      rest == IF n <= 3 THEN SubSeq(g.cards, 1, n - 1) ELSE SubSeq(g.cards, 1, n - 2)
  IN IF n # 0
     THEN IF winner = "A"
          THEN [g EXCEPT !.cards = rest,
                         !.playerAHand = Append(@, first),
                         !.playerBHand = Append(@, second)]
          ELSE [g EXCEPT !.cards = rest,
                         !.playerBHand = Append(@, first),
                         !.playerAHand = Append(@, second)]
     ELSE g

\* the replenishment block that every winning branch of result repeats:
\* the winner pops the last card of the stock, the loser the next one, or
\* the trump card when the winner took the only card left
DrawCards(g, winner, trumpCard) ==
  LET n == Len(g.cards)
      first == g.cards[n]
      second == IF n = 1 THEN trumpCard ELSE g.cards[n - 1]
      rest == IF n = 1 THEN <<>> ELSE SubSeq(g.cards, 1, n - 2)
  IN IF n # 0
     THEN IF winner = "A"
          THEN [g EXCEPT !.cards = rest,
                         !.playerAHand = Append(@, first),
                         !.playerBHand = Append(@, second)]
          ELSE [g EXCEPT !.cards = rest,
                         !.playerBHand = Append(@, first),
                         !.playerAHand = Append(@, second)]
     ELSE g

\* (variant: two cards of one suit are compared by rank before value)
TrickWinner_RankFirst(a, b, trumpCard, leadingPlayer) ==
  IF a[2] = b[2]
  THEN IF a[1] > b[1] THEN [winner |-> "A", draw |-> TRUE]
       ELSE IF b[1] > a[1] THEN [winner |-> "B", draw |-> TRUE]
       ELSE [winner |-> "B", draw |-> FALSE]
  ELSE IF a[2] = trumpCard[2] THEN [winner |-> "A", draw |-> TRUE]
  ELSE IF b[2] = trumpCard[2] THEN [winner |-> "B", draw |-> TRUE]
  ELSE IF leadingPlayer = "A" THEN [winner |-> "A", draw |-> TRUE]
  ELSE IF leadingPlayer = "B" THEN [winner |-> "B", draw |-> TRUE]
  ELSE [winner |-> "None", draw |-> FALSE]

\* (variant: with two suits and no trump the card of higher value wins)
TrickWinner_HigherValue(a, b, trumpCard, leadingPlayer) ==
  IF a[2] = b[2]
  THEN IF a[3] > b[3] THEN [winner |-> "A", draw |-> TRUE]
       ELSE IF b[3] > a[3] THEN [winner |-> "B", draw |-> TRUE]
       ELSE IF a[1] > b[1] THEN [winner |-> "A", draw |-> TRUE]
       ELSE IF b[1] > a[1] THEN [winner |-> "B", draw |-> TRUE]
       ELSE [winner |-> "B", draw |-> FALSE]
  ELSE IF a[2] = trumpCard[2] THEN [winner |-> "A", draw |-> TRUE]
  ELSE IF b[2] = trumpCard[2] THEN [winner |-> "B", draw |-> TRUE]
  ELSE IF a[3] > b[3] THEN [winner |-> "A", draw |-> TRUE]
  ELSE IF b[3] > a[3] THEN [winner |-> "B", draw |-> TRUE]
  ELSE IF leadingPlayer = "A" THEN [winner |-> "A", draw |-> TRUE]
  ELSE IF leadingPlayer = "B" THEN [winner |-> "B", draw |-> TRUE]
  ELSE [winner |-> "None", draw |-> FALSE]

\* the branch of result taken by the two played cards: who wins, and
\* whether the branch runs the replenishment block
TrickWinner(a, b, trumpCard, leadingPlayer) ==
  IF a[2] = b[2]
  THEN IF a[3] > b[3] THEN [winner |-> "A", draw |-> TRUE]
       ELSE IF b[3] > a[3] THEN [winner |-> "B", draw |-> TRUE]
       ELSE IF a[1] > b[1] THEN [winner |-> "A", draw |-> TRUE]
       ELSE IF b[1] > a[1] THEN [winner |-> "B", draw |-> TRUE]
       ELSE [winner |-> "B", draw |-> FALSE]
  ELSE IF a[2] = trumpCard[2] THEN [winner |-> "A", draw |-> TRUE]
  ELSE IF b[2] = trumpCard[2] THEN [winner |-> "B", draw |-> TRUE]
  ELSE IF leadingPlayer = "A" THEN [winner |-> "A", draw |-> TRUE]
  ELSE IF leadingPlayer = "B" THEN [winner |-> "B", draw |-> TRUE]
  ELSE [winner |-> "None", draw |-> FALSE]

\* (variant: the moves of every GameState are the hand of A)
GameState_HandOfA(to_move, g, board) ==
  [to_move |-> to_move, utility |-> g.playerAPoints, board |-> board,
   moves |-> g.playerAHand]

\* the GameState result builds for the player who moves next
GameState(to_move, g, board) ==
  [to_move |-> to_move, utility |-> g.playerAPoints, board |-> board,
   moves |-> IF to_move = "A" THEN g.playerAHand ELSE g.playerBHand]

\* (variants of result, one for each bug named: "played cards kept": a
\* resolution leaves the two cards on the table; "both scored": the points
\* of a trick are credited to both players; "leader not set": the first
\* half-move of a trick does not record who opened it; "loser leads": the
\* loser of a trick moves next)
result_Variant(g, s, move, bug) ==
  IF s.board.playerBPlayedCard = None /\ s.to_move = "A"
  THEN [game |-> g, exc |-> "None",
        state |-> GameState("B", g, [s.board EXCEPT !.leadingPlayer =
                                        IF bug = "leader not set" THEN @ ELSE "A",
                                                    !.playerAPlayedCard = move])]
  ELSE IF s.board.playerAPlayedCard = None /\ s.to_move = "B"
  THEN [game |-> g, exc |-> "None",
        state |-> GameState("A", g, [s.board EXCEPT !.leadingPlayer =
                                        IF bug = "leader not set" THEN @ ELSE "B",
                                                    !.playerBPlayedCard = move])]
  ELSE
    LET playerAPlayedCard == IF s.to_move = "A" THEN move ELSE s.board.playerAPlayedCard
        playerBPlayedCard == IF s.to_move = "B" THEN move ELSE s.board.playerBPlayedCard
        trumpCard == s.board.trumpCard
        g1 == [g EXCEPT !.playerAHand = SelectSeq(@, LAMBDA x : x # playerAPlayedCard),
                        !.playerBHand = SelectSeq(@, LAMBDA x : x # playerBPlayedCard)]
        board == [s.board EXCEPT
                    !.cardsNotPlayed = SelectSeq(@, LAMBDA x : x # playerBPlayedCard),
                    !.cardsPlayed = @ \o <<playerAPlayedCard, playerBPlayedCard>>,
                    !.playerAPlayedCard =
                       IF bug = "played cards kept" THEN playerAPlayedCard ELSE None,
                    !.playerBPlayedCard =
                       IF bug = "played cards kept" THEN playerBPlayedCard ELSE None,
                    !.leadingPlayer = ""]
        w == TrickWinner(playerAPlayedCard, playerBPlayedCard, trumpCard,
                         s.board.leadingPlayer)
        g2 == IF w.draw THEN DrawCards(g1, w.winner, trumpCard) ELSE g1
        points == TrickPoints(playerAPlayedCard, playerBPlayedCard)
        g3 == IF bug = "both scored"
              THEN [g2 EXCEPT !.playerAPoints = @ + points, !.playerBPoints = @ + points]
              ELSE IF w.winner = "A" THEN [g2 EXCEPT !.playerAPoints = @ + points]
              ELSE IF w.winner = "B" THEN [g2 EXCEPT !.playerBPoints = @ + points]
              ELSE g2
    IN IF playerAPlayedCard = None \/ playerBPlayedCard = None
       THEN [game |-> g1, exc |-> "TypeError",
             state |-> [s EXCEPT !.board.cardsPlayed =
                                   @ \o <<playerAPlayedCard, playerBPlayedCard>>]]
       ELSE IF w.winner = "None"
       THEN [game |-> g3, exc |-> "None",
             state |-> [to_move |-> "None", utility |-> 0,
                        board |-> [board EXCEPT !.leadingPlayer = s.board.leadingPlayer],
                        moves |-> <<>>]]
       ELSE IF bug = "loser leads"
       THEN [game |-> g3, exc |-> "None",
             state |-> GameState(IF w.winner = "A" THEN "B" ELSE "A", g3, board)]
       ELSE [game |-> g3, exc |-> "None", state |-> GameState(w.winner, g3, board)]

\* (variant: a resolution leaves the two cards on the table)
result_PlayedCardsKept(g, s, move) == result_Variant(g, s, move, "played cards kept")

\* (variant: the points of a trick are credited to both players)
result_BothScored(g, s, move) == result_Variant(g, s, move, "both scored")

\* (variant: the first half-move of a trick does not record who opened it)
result_LeaderNotSet(g, s, move) == result_Variant(g, s, move, "leader not set")

\* (variant: the loser of a trick moves next)
result_LoserLeads(g, s, move) == result_Variant(g, s, move, "loser leads")

\* result(state, move) on the Briscas object g: the object after the call,
\* the GameState returned (to_move "None": the call fell off the end of
\* the function and returned None) and the exception raised ("None": the
\* call returned; "TypeError": a played card is None and the comparison of
\* the suits subscripts it, after the hands were filtered and the cards
\* appended to the shared list board['cardsPlayed'])
result(g, s, move) ==
  IF s.board.playerBPlayedCard = None /\ s.to_move = "A"
  THEN [game |-> g, exc |-> "None",
        state |-> GameState("B", g, [s.board EXCEPT !.leadingPlayer = "A",
                                                    !.playerAPlayedCard = move])]
  ELSE IF s.board.playerAPlayedCard = None /\ s.to_move = "B"
  THEN [game |-> g, exc |-> "None",
        state |-> GameState("A", g, [s.board EXCEPT !.leadingPlayer = "B",
                                                    !.playerBPlayedCard = move])]
  ELSE
    LET playerAPlayedCard == IF s.to_move = "A" THEN move ELSE s.board.playerAPlayedCard
        playerBPlayedCard == IF s.to_move = "B" THEN move ELSE s.board.playerBPlayedCard
        trumpCard == s.board.trumpCard
        g1 == [g EXCEPT !.playerAHand = SelectSeq(@, LAMBDA x : x # playerAPlayedCard),
                        !.playerBHand = SelectSeq(@, LAMBDA x : x # playerBPlayedCard)]
        board == [s.board EXCEPT
                    !.cardsNotPlayed = SelectSeq(@, LAMBDA x : x # playerBPlayedCard),
                    !.cardsPlayed = @ \o <<playerAPlayedCard, playerBPlayedCard>>,
                    !.playerAPlayedCard = None,
                    !.playerBPlayedCard = None,
                    !.leadingPlayer = ""]
        w == TrickWinner(playerAPlayedCard, playerBPlayedCard, trumpCard,
                         s.board.leadingPlayer)
        g2 == IF w.draw THEN DrawCards(g1, w.winner, trumpCard) ELSE g1
        points == TrickPoints(playerAPlayedCard, playerBPlayedCard)
        g3 == IF w.winner = "A" THEN [g2 EXCEPT !.playerAPoints = @ + points]
              ELSE IF w.winner = "B" THEN [g2 EXCEPT !.playerBPoints = @ + points]
              ELSE g2
    IN IF playerAPlayedCard = None \/ playerBPlayedCard = None
       THEN [game |-> g1, exc |-> "TypeError",
             state |-> [s EXCEPT !.board.cardsPlayed =
                                   @ \o <<playerAPlayedCard, playerBPlayedCard>>]]
       ELSE IF w.winner = "None"
       THEN [game |-> g3, exc |-> "None",
             state |-> [to_move |-> "None", utility |-> 0,
                        board |-> [board EXCEPT !.leadingPlayer = s.board.leadingPlayer],
                        moves |-> <<>>]]
       ELSE [game |-> g3, exc |-> "None", state |-> GameState(w.winner, g3, board)]

(***************************************************************************)
(* games.py: the same game with Card objects, the leading player kept on   *)
(* the Briscas object, and lists changed in place (list.remove raises      *)
(* ValueError when the element is absent).  The lists a GameState shares   *)
(* with the Briscas object (board['playerAHand'], moves) and with the      *)
(* other GameStates (board['cardsPlayed'], board['cardsNotPlayed']) follow *)
(* every change in place.                                                  *)
(***************************************************************************)
\* Briscas.__init__ of games.py: the deal of initGame; no card played is []
games_init(k, i) ==
  LET deal == initGame(k, i)
  IN [game |-> [cards |-> deal.game.cards, playerAHand |-> deal.game.playerAHand,
                playerBHand |-> deal.game.playerBHand,
                playerAPoints |-> 0, playerBPoints |-> 0,
                trump |-> deal.game.trump, leadingPlayer |-> ""],
      initial |-> [to_move |-> "A", utility |-> 0,
                   board |-> [playerAHand |-> deal.game.playerAHand,
                              playerAPlayedCard |-> None,
                              playerBPlayedCard |-> None,
                              cardsPlayed |-> <<>>,
                              cardsNotPlayed |-> deal.initial.board.cardsNotPlayed,
                              trumpCard |-> deal.game.trump,
                              playerAPoints |-> 0, playerBPoints |-> 0],
                   moves |-> deal.game.playerAHand]]

\* list.remove(x): the list without the first x
RECURSIVE Remove(_, _)
Remove(seq, x) ==
  IF seq = <<>> THEN <<>>
  ELSE IF seq[1] = x THEN Tail(seq)
  ELSE <<seq[1]>> \o Remove(Tail(seq), x)

\* the branch of games.py's result taken by the two played cards
games_TrickWinner(a, b, trumpCard, leadingPlayer) ==
  IF a[2] # trumpCard[2] /\ b[2] # trumpCard[2]
  THEN IF a[2] = b[2]
       THEN IF a[3] > b[3] THEN "A" ELSE "B"
       ELSE IF leadingPlayer = "A" THEN "A"
       ELSE IF leadingPlayer = "B" THEN "B"
       ELSE "None"
  ELSE IF a[2] = trumpCard[2] /\ b[2] = trumpCard[2]
       THEN IF a[3] > b[3] THEN "A" ELSE "B"
       ELSE IF a[2] = trumpCard[2] THEN "A" ELSE "B"

\* the replenishment block of games.py: as in briscas.py, and the card A
\* draws from the stock is removed from board['cardsNotPlayed']
games_DrawCards(g, cardsNotPlayed, winner, trumpCard) ==
  LET n == Len(g.cards)
      first == g.cards[n]
      second == IF n = 1 THEN trumpCard ELSE g.cards[n - 1]
      rest == IF n = 1 THEN <<>> ELSE SubSeq(g.cards, 1, n - 2)
  IN IF n = 0
     THEN [game |-> g, cardsNotPlayed |-> cardsNotPlayed, exc |-> "None"]
     ELSE IF winner = "A"
     THEN IF first \in Range(cardsNotPlayed)
          THEN [game |-> [g EXCEPT !.cards = rest,
                                   !.playerAHand = Append(@, first),
                                   !.playerBHand = Append(@, second)],
                cardsNotPlayed |-> Remove(cardsNotPlayed, first),
                exc |-> "None"]
          ELSE [game |-> [g EXCEPT !.cards = SubSeq(@, 1, n - 1),
                                   !.playerAHand = Append(@, first)],
                cardsNotPlayed |-> cardsNotPlayed,
                exc |-> "ValueError"]
     ELSE IF n = 1 \/ second \in Range(cardsNotPlayed)
          THEN [game |-> [g EXCEPT !.cards = rest,
                                   !.playerBHand = Append(@, first),
                                   !.playerAHand = Append(@, second)],
                cardsNotPlayed |-> IF n = 1 THEN cardsNotPlayed
                                   ELSE Remove(cardsNotPlayed, second),
                exc |-> "None"]
          ELSE [game |-> [g EXCEPT !.cards = rest,
                                   !.playerBHand = Append(@, first),
                                   !.playerAHand = Append(@, second)],
                cardsNotPlayed |-> cardsNotPlayed,
                exc |-> "ValueError"]

\* the GameState s once the lists it shares have been changed in place
games_Shared(s, g, cardsPlayed, cardsNotPlayed) ==
  [s EXCEPT !.board.playerAHand = g.playerAHand,
            !.board.cardsPlayed = cardsPlayed,
            !.board.cardsNotPlayed = cardsNotPlayed,
            !.moves = IF s.to_move = "A" THEN g.playerAHand ELSE g.playerBHand]

\* result(state, move) of games.py on the Briscas object g; when the call
\* raises, state is the argument as the call left it
games_result(g, s, move) ==
  IF s.board.playerBPlayedCard = None /\ s.to_move = "A"
  THEN [game |-> [g EXCEPT !.leadingPlayer = "A"], exc |-> "None",
        state |-> [to_move |-> "B", utility |-> g.playerAPoints,
                   board |-> [s.board EXCEPT !.playerAPlayedCard = move],
                   moves |-> g.playerBHand]]
  ELSE IF s.board.playerAPlayedCard = None /\ s.to_move = "B"
  THEN [game |-> [g EXCEPT !.leadingPlayer = "B"], exc |-> "None",
        state |-> [to_move |-> "A", utility |-> g.playerAPoints,
                   board |-> [s.board EXCEPT !.playerBPlayedCard = move],
                   moves |-> g.playerAHand]]
  ELSE
    LET playerAPlayedCard == IF s.to_move = "A" THEN move ELSE s.board.playerAPlayedCard
        playerBPlayedCard == IF s.to_move = "B" THEN move ELSE s.board.playerBPlayedCard
        trumpCard == s.board.trumpCard
        cardsPlayed == s.board.cardsPlayed \o <<playerAPlayedCard, playerBPlayedCard>>
        g1 == [g EXCEPT !.playerAHand = Remove(@, playerAPlayedCard)]
        g2 == [g1 EXCEPT !.playerBHand = Remove(@, playerBPlayedCard)]
        winner == games_TrickWinner(playerAPlayedCard, playerBPlayedCard,
                                    trumpCard, g.leadingPlayer)
        drawn == games_DrawCards(g2, Remove(s.board.cardsNotPlayed, playerBPlayedCard),
                             winner, trumpCard)
        points == playerAPlayedCard[3] + playerBPlayedCard[3]
        g3 == IF winner = "A" THEN [drawn.game EXCEPT !.playerAPoints = @ + points]
              ELSE [drawn.game EXCEPT !.playerBPoints = @ + points]
        g4 == IF playerAPlayedCard[2] # trumpCard[2] /\ playerBPlayedCard[2] # trumpCard[2]
                 /\ playerAPlayedCard[2] # playerBPlayedCard[2]
              THEN [g3 EXCEPT !.leadingPlayer = ""] ELSE g3
        board == [s.board EXCEPT !.playerAPlayedCard = None,
                                 !.playerBPlayedCard = None,
                                 !.playerAHand = g4.playerAHand,
                                 !.cardsPlayed = cardsPlayed,
                                 !.cardsNotPlayed = drawn.cardsNotPlayed]
    IN IF playerAPlayedCard \notin Range(g.playerAHand)
       THEN [game |-> g, exc |-> "ValueError", state |-> s]
       ELSE IF playerBPlayedCard \notin Range(g.playerBHand)
       THEN [game |-> g1, exc |-> "ValueError",
             state |-> games_Shared(s, g1, s.board.cardsPlayed, s.board.cardsNotPlayed)]
       ELSE IF playerBPlayedCard \notin Range(s.board.cardsNotPlayed)
       THEN [game |-> g2, exc |-> "ValueError",
             state |-> games_Shared(s, g2, cardsPlayed, s.board.cardsNotPlayed)]
       ELSE IF winner = "None"
       THEN [game |-> g2, exc |-> "None",
             state |-> [to_move |-> "None", utility |-> 0,
                        board |-> [board EXCEPT
                                     !.playerAHand = g2.playerAHand,
                                     !.cardsNotPlayed =
                                        Remove(s.board.cardsNotPlayed, playerBPlayedCard)],
                        moves |-> <<>>]]
       ELSE IF drawn.exc # "None"
       THEN [game |-> drawn.game, exc |-> drawn.exc,
             state |-> games_Shared(s, drawn.game, cardsPlayed, drawn.cardsNotPlayed)]
       ELSE [game |-> g4, exc |-> "None",
             state |-> [to_move |-> winner, utility |-> g4.playerAPoints,
                        board |-> board,
                        moves |-> IF winner = "A" THEN g4.playerAHand
                                  ELSE g4.playerBHand]]

(***************************************************************************)
(* The locals of alphabeta_full_search outside a search.                   *)
(***************************************************************************)
\* no search is running; n searches were made in this game
Idle(n) ==
  [pc |-> "idle", i |-> 0, j |-> 0, state |-> None, best_score |-> 0,
   best_action |-> None, beta |-> 0, a |-> 0, ret |-> 0, searches |-> n,
   recorded |-> <<>>]

\* cutoff_test was not called yet
NoCutoff ==
  [called |-> FALSE, state |-> None, depth |-> 0, sim |-> None, tested |-> FALSE,
   terminal |-> FALSE]

\* query_player is not running
NoQuery == [pc |-> "idle", index |-> 0, move |-> None, exc |-> "None"]

(***************************************************************************)
(* Briscas.play_game, with the players reduced to their contract: each     *)
(* returns one element of actions(state).                                  *)
(***************************************************************************)
Init ==
  \E k \in 0..MaxShuffle, i \in 0..MaxDealIndex :
    /\ engine \in {"briscas", "games"}
    /\ game = IF engine = "briscas" THEN initGame(k, i).game ELSE games_init(k, i).game
    /\ state = IF engine = "briscas" THEN initGame(k, i).initial
               ELSE games_init(k, i).initial
    /\ pc = "playing"
    /\ call = [game |-> game, state |-> state, move |-> None, exc |-> "None",
               again |-> FALSE]
    /\ choices = 0
    /\ search = Idle(0)
    /\ gameSim = None
    /\ stack = <<>>
    /\ cutoff = NoCutoff
    /\ query = NoQuery

\* one turn of the loop: state = self.result(state, move) and the
\* terminal test
Turn(r, move) ==
  /\ game' = r.game
  /\ state' = r.state
  /\ pc' = IF r.exc # "None" THEN "crashed"
           ELSE IF terminal_test(r.game, r.state) THEN "done" ELSE "playing"
  /\ call' = [game |-> game, state |-> state, move |-> move, exc |-> r.exc,
               again |-> FALSE]
  /\ UNCHANGED engine

\* play_game outside a search and outside query_player
NoSearch == UNCHANGED <<search, gameSim, stack, cutoff, query>>

\* a turn that plays the card at index of actions(state)
Play(index) ==
  /\ index # 0 => choices < MaxChoices
  /\ choices' = IF index = 0 THEN choices ELSE choices + 1
  /\ Turn(result(game, state, actions(state)[index + 1]), actions(state)[index + 1])
  /\ NoSearch

\* briscas.py, the turn of A
PlayA ==
  /\ engine = "briscas"
  /\ pc = "playing"
  /\ state.to_move = "A"
  /\ search.pc = "idle"
  /\ \E index \in 0..(Len(actions(state)) - 1) : Play(index)

\* briscas.py, the turn of B
PlayB ==
  /\ engine = "briscas"
  /\ pc = "playing"
  /\ state.to_move # "A"
  /\ search.pc = "idle"
  /\ \E index \in 0..(Len(actions(state)) - 1) : Play(index)

\* games.py, one turn of play_game
games_Play ==
  /\ engine = "games"
  /\ pc = "playing"
  /\ \E index \in 0..(Len(actions(state)) - 1) :
       /\ index # 0 => choices < MaxChoices
       /\ choices' = IF index = 0 THEN choices ELSE choices + 1
       /\ Turn(games_result(game, state, actions(state)[index + 1]),
               actions(state)[index + 1])
       /\ NoSearch

Next == PlayA \/ PlayB \/ games_Play

Spec == Init /\ [][Next]_vars

\* play_game of briscas.py is a sequential loop: while the game is not
\* over the next turn, of A or of B, is taken
SpecFair == Spec /\ WF_vars(PlayA) /\ WF_vars(PlayB)

(***************************************************************************)
(* result called outside play_game's discipline: a second time with the    *)
(* arguments of the latest call (the values they had before that call),    *)
(* or with a card that is not in the hand of the player to move.  Nothing  *)
(* follows such a call.                                                    *)
(***************************************************************************)
Replay ==
  /\ pc = "playing"
  /\ call.move # None
  /\ LET r == IF engine = "briscas" THEN result(game, call.state, call.move)
              ELSE games_result(game, call.state, call.move)
     IN /\ game' = r.game
        /\ state' = r.state
        /\ pc' = IF r.exc # "None" THEN "crashed" ELSE "called"
        /\ call' = [call EXCEPT !.again = TRUE, !.exc = r.exc]
  /\ UNCHANGED <<engine, choices>>
  /\ NoSearch

\* the cards tried as illegal moves
IllegalCards == {state.board.trumpCard, Deck[1]}

IllegalMove ==
  /\ engine = "briscas"
  /\ pc = "playing"
  /\ \E move \in IllegalCards \ Range(actions(state)) :
       LET r == result(game, state, move)
       IN /\ game' = r.game
          /\ state' = r.state
          /\ pc' = IF r.exc # "None" THEN "crashed" ELSE "called"
          /\ call' = [game |-> game, state |-> state, move |-> move,
                      exc |-> r.exc, again |-> FALSE]
  /\ UNCHANGED <<engine, choices>>
  /\ NoSearch

NextCalls == Next \/ Replay \/ IllegalMove

SpecCalls == Init /\ [][NextCalls]_vars

(***************************************************************************)
(* result called once more after the game is over (the stock and the two   *)
(* hands are empty), with a card: actions(state) is empty then.            *)
(***************************************************************************)
TerminalCall ==
  /\ pc = "done"
  /\ terminal_test(game, state)
  /\ \E move \in IllegalCards :
       LET r == IF engine = "briscas" THEN result(game, state, move)
                ELSE games_result(game, state, move)
       IN /\ game' = r.game
          /\ state' = r.state
          /\ pc' = IF r.exc # "None" THEN "crashed" ELSE "called"
          /\ call' = [game |-> game, state |-> state, move |-> move,
                      exc |-> r.exc, again |-> FALSE]
  /\ UNCHANGED <<engine, choices>>
  /\ NoSearch

NextTerminal == Next \/ TerminalCall

SpecTerminal == Init /\ [][NextTerminal]_vars

(***************************************************************************)
(* alphabeta_full_search, called by alphabeta_player for every move of A.  *)
(* Each sample builds one Briscas object, gameSim, and every call of       *)
(* gameSim.result in the sample's tree changes that one object.  All the   *)
(* boards of a sample share the list board['cardsPlayed'] of the sample's  *)
(* copy of state (board = state.board.copy() is a shallow copy), so that   *)
(* list is kept in search.state and read from there.                       *)
(***************************************************************************)
\* Briscas() followed by setSimulationCards(state); j is the index
\* random.randint draws for the three cards of B
setSimulationCards(s, j) ==
  [cards |-> Deal(s.board.cardsNotPlayed, j, 3).rest,
   playerAHand |-> s.board.playerAHand,
   playerBHand |-> Deal(s.board.cardsNotPlayed, j, 3).taken,
   playerAPoints |-> 0, playerBPoints |-> 0,
   trump |-> s.board.trumpCard]

\* cutoff_test reads the Briscas object of the game that is played
cutoff_test(s, depth) == depth > d \/ terminal_test(game, s)

Max(x, y) == IF x >= y THEN x ELSE y
Min(x, y) == IF x <= y THEN x ELSE y

\* a call of max_value or min_value that has not run its first line yet
Frame(kind, s, alpha, beta, depth) ==
  [kind |-> kind, state |-> s, alpha |-> alpha, beta |-> beta, depth |-> depth,
   v |-> 0, idx |-> 0]

\* the innermost call in progress, and the calls around it
Top == stack[Len(stack)]
Pop == SubSeq(stack, 1, Len(stack) - 1)

\* a state of the sample, with the shared list of played cards as it is now
Shared(s) == [s EXCEPT !.board.cardsPlayed = search.state.board.cardsPlayed]

\* (variant: the search runs on the Briscas object of the game, not on a
\* new one)
Game_LiveObject ==
  /\ UNCHANGED <<engine, state, pc, call, choices, query>>
  /\ game' = IF gameSim' = None THEN game ELSE gameSim'

\* the search works on gameSim and on its deep copy of state: nothing of
\* play_game changes
Game == UNCHANGED <<engine, game, state, pc, call, choices, query>>

\* alphabeta_player(game, state): the body of alphabeta_full_search up to
\* the loop over the samples
StartSearch ==
  /\ engine = "briscas"
  /\ pc = "playing"
  /\ state.to_move = "A"
  /\ search.pc = "idle"
  /\ search.searches < MaxSearches
  /\ search' = [pc |-> "sample", i |-> 0, j |-> 0, state |-> state,
                best_score |-> -infinity, best_action |-> None, beta |-> infinity,
                a |-> 0, ret |-> 0, searches |-> search.searches + 1,
                recorded |-> <<>>]
  /\ UNCHANGED <<gameSim, stack, cutoff>>
  /\ Game

\* one turn of for i in range(...): a new gameSim, and state replaced by
\* its deep copy
Sample ==
  /\ search.pc = "sample"
  /\ search.i < MaxSamples
  /\ \E j \in 0..MaxDealIndex :
       /\ gameSim' = setSimulationCards(search.state, j)
       /\ search' = [search EXCEPT !.pc = "root", !.a = 0, !.j = j]
  /\ UNCHANGED <<stack, cutoff>>
  /\ Game

\* for a in gameSim.actions(state): the call of gameSim.result and of
\* min_value
RootCall ==
  /\ search.pc = "root"
  /\ search.a < Len(actions(search.state))
  /\ LET r == result(gameSim, search.state, actions(search.state)[search.a + 1])
     IN /\ gameSim' = r.game
        /\ stack' = <<Frame("min", r.state, search.best_score, search.beta, 0)>>
        /\ search' = [search EXCEPT !.pc = "enter",
                                    !.state.board.cardsPlayed = r.state.board.cardsPlayed]
  /\ UNCHANGED cutoff
  /\ Game

\* the loop over the actions of the root is exhausted: the next sample
RootNext ==
  /\ search.pc = "root"
  /\ search.a >= Len(actions(search.state))
  /\ search' = [search EXCEPT !.pc = "sample", !.i = @ + 1]
  /\ UNCHANGED <<gameSim, stack, cutoff>>
  /\ Game

\* the first lines of max_value and min_value: the cutoff test, then
\* either return gameSim.utility(state, player) or v = -infinity / infinity
Enter ==
  /\ search.pc = "enter"
  /\ cutoff' = [called |-> TRUE, state |-> Top.state, depth |-> Top.depth,
                sim |-> gameSim, tested |-> ~(Top.depth > d),
                terminal |-> terminal_test(game, Top.state)]
  /\ IF cutoff_test(Top.state, Top.depth)
     THEN /\ stack' = Pop
          /\ search' = [search EXCEPT !.pc = "return",
                                      !.ret = utility(gameSim, Top.state, "A")]
     ELSE /\ stack' = [stack EXCEPT ![Len(stack)].v =
                                      IF Top.kind = "max" THEN -infinity ELSE infinity]
          /\ search' = [search EXCEPT !.pc = "loop"]
  /\ UNCHANGED gameSim
  /\ Game

\* for a in gameSim.actions(state) in max_value and min_value: the call of
\* gameSim.result and of the other function, or return v after the last a
Loop ==
  /\ search.pc = "loop"
  /\ IF Top.idx < Len(actions(Top.state))
     THEN LET r == result(gameSim, Shared(Top.state), actions(Top.state)[Top.idx + 1])
          IN /\ gameSim' = r.game
             /\ stack' = Append(stack, Frame(IF Top.kind = "max" THEN "min" ELSE "max",
                                             r.state, Top.alpha, Top.beta, Top.depth + 1))
             /\ search' = [search EXCEPT !.pc = "enter",
                                         !.state.board.cardsPlayed = r.state.board.cardsPlayed]
     ELSE /\ gameSim' = gameSim
          /\ stack' = Pop
          /\ search' = [search EXCEPT !.pc = "return", !.ret = Top.v]
  /\ UNCHANGED cutoff
  /\ Game

\* the caller after a call returned search.ret: the root loop keeps the
\* best value and its action; max_value and min_value update v, return it
\* when it prunes, or narrow alpha / beta and go on with the next a
Return ==
  /\ search.pc = "return"
  /\ IF stack = <<>>
     THEN /\ search' = [search EXCEPT
                          !.pc = "root",
                          !.a = @ + 1,
                          !.best_score = IF search.ret > @ THEN search.ret ELSE @,
                          !.best_action = IF search.ret > search.best_score
                                          THEN actions(search.state)[search.a + 1]
                                          ELSE @,
                          !.recorded = Append(@, [i |-> search.i, j |-> search.j,
                                                  a |-> actions(search.state)[search.a + 1],
                                                  v |-> search.ret])]
          /\ stack' = stack
     ELSE LET v == IF Top.kind = "max" THEN Max(Top.v, search.ret)
                   ELSE Min(Top.v, search.ret)
          IN IF (IF Top.kind = "max" THEN v >= Top.beta ELSE v <= Top.alpha)
             THEN /\ stack' = Pop
                  /\ search' = [search EXCEPT !.ret = v]
             ELSE /\ stack' = [stack EXCEPT
                                 ![Len(stack)].v = v,
                                 ![Len(stack)].alpha = IF Top.kind = "max" THEN Max(@, v) ELSE @,
                                 ![Len(stack)].beta = IF Top.kind = "min" THEN Min(@, v) ELSE @,
                                 ![Len(stack)].idx = @ + 1]
                  /\ search' = [search EXCEPT !.pc = "loop"]
  /\ UNCHANGED <<gameSim, cutoff>>
  /\ Game

\* the samples are exhausted: return best_action, and play_game's turn of
\* A with that move
PlayBest ==
  /\ search.pc = "sample"
  /\ search.i >= MaxSamples
  /\ Turn(result(game, state, search.best_action), search.best_action)
  /\ search' = Idle(search.searches)
  /\ gameSim' = None
  /\ stack' = <<>>
  /\ cutoff' = NoCutoff
  /\ UNCHANGED <<choices, query>>

InitSearch == Init /\ engine = "briscas"

NextSearch ==
  \/ StartSearch \/ Sample \/ RootCall \/ RootNext \/ Enter \/ Loop \/ Return
  \/ PlayBest \/ PlayB

SpecSearch == InitSearch /\ [][NextSearch]_vars

(***************************************************************************)
(* minimax_decision(state, game): max_value and min_value call             *)
(* game.result on the one Briscas object they are given, so the object is  *)
(* threaded through the calls in the order the code makes them.  (The list *)
(* board['cardsPlayed'] that result appends to is read by none of them.)   *)
(***************************************************************************)
RECURSIVE minimax_value(_, _, _)
RECURSIVE minimax_loop(_, _, _, _, _)

\* for a in game.actions(state): v = max(v, min_value(game.result(state, a)))
\* in max_value, v = min(v, max_value(...)) in min_value, from the a at idx
minimax_loop(kind, g, s, idx, v) ==
  IF idx > Len(actions(s)) THEN [game |-> g, v |-> v]
  ELSE LET r == result(g, s, actions(s)[idx])
           c == minimax_value(IF kind = "max" THEN "min" ELSE "max", r.game, r.state)
       IN minimax_loop(kind, c.game, s, idx + 1,
                       IF kind = "max" THEN Max(v, c.v) ELSE Min(v, c.v))

\* max_value(state) / min_value(state) on the Briscas object g: the value
\* returned and the object after the call
minimax_value(kind, g, s) ==
  IF terminal_test(g, s) THEN [game |-> g, v |-> utility(g, s, "A")]
  ELSE minimax_loop(kind, g, s, 1, IF kind = "max" THEN -infinity ELSE infinity)

\* the keys argmax computes, min_value(game.result(state, a)) for the
\* actions from idx on, in order
RECURSIVE minimax_keys(_, _, _)
minimax_keys(g, s, idx) ==
  IF idx > Len(actions(s)) THEN <<>>
  ELSE LET r == result(g, s, actions(s)[idx])
           c == minimax_value("min", r.game, r.state)
       IN <<c.v>> \o minimax_keys(c.game, s, idx + 1)

\* argmax(seq, key): the position of the first element of largest key
argmax(keys) ==
  CHOOSE n \in 1..Len(keys) :
    /\ \A m \in 1..Len(keys) : keys[m] <= keys[n]
    /\ \A m \in 1..(n - 1) : keys[m] < keys[n]

minimax_decision(g, s) == actions(s)[argmax(minimax_keys(g, s, 1))]

(***************************************************************************)
(* The two searches on endgames: play_game with every player playing the   *)
(* first card of its hand until at most MaxEndgameCards cards are left for *)
(* each player (hands and stock together); from there A moves by           *)
(* alphabeta_full_search.                                                  *)
(***************************************************************************)
\* the cards of the Briscas object g that are still to be played, but for
\* the trump card
Residual(g) == Len(g.cards) + Len(g.playerAHand) + Len(g.playerBHand)

Endgame == Residual(game) <= 2 * MaxEndgameCards

\* a turn before the endgame
Forward ==
  /\ engine = "briscas"
  /\ pc = "playing"
  /\ search.pc = "idle"
  /\ ~Endgame
  /\ Turn(result(game, state, actions(state)[1]), actions(state)[1])
  /\ UNCHANGED choices
  /\ NoSearch

EndgameSearch == Endgame /\ StartSearch

EndgamePlayB == Endgame /\ PlayB

NextEndgame ==
  \/ Forward \/ EndgameSearch \/ Sample \/ RootCall \/ RootNext \/ Enter \/ Loop
  \/ Return \/ PlayBest \/ EndgamePlayB

SpecEndgame == InitSearch /\ [][NextEndgame]_vars

(***************************************************************************)
(* query_player.  A line typed at the prompt is a sequence of characters;  *)
(* int(move_string) parses it.                                             *)
(***************************************************************************)
\* the characters the lines are made of
InputChars == {"-", "0", "1", "2", "3", "4", "x"}

\* the lines of at most MaxInputLen characters
Inputs == UNION {[1..n -> InputChars] : n \in 0..MaxInputLen}

Digits == <<"0", "1", "2", "3", "4", "5", "6", "7", "8", "9">>

DigitValue(c) == (CHOOSE n \in 1..Len(Digits) : Digits[n] = c) - 1

\* the number a sequence of digits writes in base ten
RECURSIVE Number(_)
Number(ds) ==
  IF ds = <<>> THEN 0
  ELSE 10 * Number(SubSeq(ds, 1, Len(ds) - 1)) + DigitValue(ds[Len(ds)])

\* int(text): an optional sign and one or more digits, ValueError otherwise
int(text) ==
  LET signed == text # <<>> /\ text[1] \in {"-", "+"}
      body == IF signed THEN Tail(text) ELSE text
  IN IF body = <<>> \/ \E n \in 1..Len(body) : body[n] \notin Range(Digits)
     THEN [exc |-> "ValueError", value |-> 0]
     ELSE [exc |-> "None",
           value |-> IF signed /\ text[1] = "-" THEN -Number(body) ELSE Number(body)]

\* seq[index] of Python: a negative index counts from the end, IndexError
\* outside -len..len-1
Subscript(seq, index) ==
  IF index >= Len(seq) \/ index < -Len(seq) THEN [exc |-> "IndexError", value |-> None]
  ELSE [exc |-> "None",
        value |-> IF index >= 0 THEN seq[index + 1] ELSE seq[Len(seq) + index + 1]]

\* the guard that bounds the game: a card other than the first costs a choice
Chosen(move) == move # actions(state)[1] => choices < MaxChoices

\* briscas.py, query_player(game, state) for B: one line read by the loop
\* while(not validInput), and what follows it: another turn of the loop,
\* or move = game.actions(state)[index]
Ask ==
  /\ engine = "briscas"
  /\ pc = "playing"
  /\ state.to_move = "B"
  /\ search.pc = "idle"
  /\ query.pc \in {"idle", "prompt"}
  /\ \E text \in Inputs :
       LET index == int(text)
           move == Subscript(actions(state), index.value)
       IN IF index.exc # "None" \/ index.value >= Len(actions(state))
          THEN /\ query' = [pc |-> "prompt", index |-> 0, move |-> None, exc |-> "None"]
               /\ pc' = pc
          ELSE IF move.exc # "None"
          THEN /\ query' = [pc |-> "raised", index |-> index.value, move |-> None,
                            exc |-> move.exc]
               /\ pc' = "crashed"
          ELSE /\ Chosen(move.value)
               /\ query' = [pc |-> "returned", index |-> index.value,
                            move |-> move.value, exc |-> "None"]
               /\ pc' = pc
  /\ UNCHANGED <<engine, game, state, call, choices, search, gameSim, stack, cutoff>>

\* games.py, query_player(game, state) for either player: one line, no
\* loop; after a ValueError the local index is unbound
games_Ask ==
  /\ engine = "games"
  /\ pc = "playing"
  /\ query.pc = "idle"
  /\ \E text \in Inputs :
       LET index == int(text)
           move == Subscript(actions(state), index.value)
       IN IF index.exc # "None"
          THEN /\ query' = [pc |-> "raised", index |-> 0, move |-> None,
                            exc |-> "UnboundLocalError"]
               /\ pc' = "crashed"
          ELSE IF move.exc # "None"
          THEN /\ query' = [pc |-> "raised", index |-> index.value, move |-> None,
                            exc |-> move.exc]
               /\ pc' = "crashed"
          ELSE /\ Chosen(move.value)
               /\ query' = [pc |-> "returned", index |-> index.value,
                            move |-> move.value, exc |-> "None"]
               /\ pc' = pc
  /\ UNCHANGED <<engine, game, state, call, choices, search, gameSim, stack, cutoff>>

\* play_game with the move query_player returned
QueryPlay ==
  /\ pc = "playing"
  /\ query.pc = "returned"
  /\ Turn(IF engine = "briscas" THEN result(game, state, query.move)
          ELSE games_result(game, state, query.move), query.move)
  /\ choices' = IF query.move = actions(state)[1] THEN choices ELSE choices + 1
  /\ query' = NoQuery
  /\ UNCHANGED <<search, gameSim, stack, cutoff>>

NextQuery == PlayA \/ Ask \/ games_Ask \/ QueryPlay

SpecQuery == Init /\ [][NextQuery]_vars

(***************************************************************************)
(* What the latest call of result was about.                               *)
(***************************************************************************)
\* the call was the first half-move of a trick
FirstHalf(s) ==
  \/ s.board.playerBPlayedCard = None /\ s.to_move = "A"
  \/ s.board.playerAPlayedCard = None /\ s.to_move = "B"

\* the latest call of result was given the second card of a trick
TrickCall == call.move # None /\ ~FirstHalf(call.state)

\* the two cards of that trick, and the player who led it
CardA == IF call.state.to_move = "A" THEN call.move ELSE call.state.board.playerAPlayedCard
CardB == IF call.state.to_move = "B" THEN call.move ELSE call.state.board.playerBPlayedCard
Leader == IF engine = "briscas" THEN call.state.board.leadingPlayer ELSE call.game.leadingPlayer
TrumpSuit == call.state.board.trumpCard[2]

Other(p) == IF p = "A" THEN "B" ELSE "A"
Hand(g, p) == IF p = "A" THEN g.playerAHand ELSE g.playerBHand
Points(g, p) == IF p = "A" THEN g.playerAPoints ELSE g.playerBPoints

\* the call returned, player p won the trick and gained n points: p moves
\* next, p's score grew by n and the other score did not change
Won(p, n) ==
  /\ call.exc = "None"
  /\ state.to_move = p
  /\ Points(game, p) = Points(call.game, p) + n
  /\ Points(game, Other(p)) = Points(call.game, Other(p))

C2_TrumpWins ==
  (TrickCall /\ CardA[2] # CardB[2] /\ (CardA[2] = TrumpSuit \/ CardB[2] = TrumpSuit))
    => Won(IF CardA[2] = TrumpSuit THEN "A" ELSE "B", CardA[3] + CardB[3])

(***************************************************************************)
(* C3.  Two cards of different suits, neither of the trump suit.           *)
(***************************************************************************)
\* C3: when a move completes a trick with two cards of different suits,
\* neither of the trump suit, the player who led the trick wins it.
C3_LeaderWins ==
  (TrickCall /\ CardA[2] # CardB[2] /\ CardA[2] # TrumpSuit /\ CardB[2] # TrumpSuit)
    => Leader \in {"A", "B"} /\ Won(Leader, CardA[3] + CardB[3])

\* B led and won although A's card is worth more
C3_Witness ==
  /\ TrickCall /\ CardA[2] # CardB[2] /\ CardA[2] # TrumpSuit /\ CardB[2] # TrumpSuit
  /\ Leader = "B" /\ CardA[3] > CardB[3]
  /\ state.to_move = "B"

(***************************************************************************)
(* C4.  The forty cards.                                                   *)
(***************************************************************************)
\* the trump card is still set aside: it is in no hand and was not played
TrumpUndrawn ==
  state.board.trumpCard \notin
    (Range(game.playerAHand) \cup Range(game.playerBHand) \cup Range(state.board.cardsPlayed))

\* hand A, hand B, the stock, the trump card while set aside, and the
\* cards of the completed tricks
AllCards ==
  game.playerAHand \o game.playerBHand \o game.cards
    \o (IF TrumpUndrawn THEN <<state.board.trumpCard>> ELSE <<>>)
    \o state.board.cardsPlayed

\* C4: in every state of a game of briscas.py played with moves from
\* actions(state), hand A, hand B, the stock, the undrawn trump card and
\* the played cards hold 40 cards together, and no card twice.
C4_CardsPartitioned ==
  engine = "briscas" => Len(AllCards) = 40 /\ Cardinality(Range(AllCards)) = 40

\* the stock is exhausted, the trump card is in a hand and a trick is half
\* played
C4_Witness ==
  /\ engine = "briscas" /\ game.cards = <<>> /\ ~TrumpUndrawn
  /\ state.board.trumpCard \in Range(game.playerAHand)
  /\ state.board.playerBPlayedCard # None
  /\ Len(state.board.cardsPlayed) = 34

(***************************************************************************)
(* C5.  The 120 points.                                                    *)
(***************************************************************************)
\* C5: in every state of a game of briscas.py the two scores sum to at
\* most 120, and to exactly 120 in a terminal state.
C5_PointsConserved ==
  engine = "briscas" =>
    /\ game.playerAPoints + game.playerBPoints <= 120
    /\ terminal_test(game, state) => game.playerAPoints + game.playerBPoints = 120

\* a finished game in which both players scored
C5_Witness ==
  /\ engine = "briscas" /\ pc = "done" /\ terminal_test(game, state)
  /\ game.playerAPoints > 0 /\ game.playerBPoints > 0

(***************************************************************************)
(* C6.  result called twice.                                               *)
(***************************************************************************)
\* what the first of the two calls returned and left in the Briscas object
FirstCall ==
  IF engine = "briscas" THEN result(call.game, call.state, call.move)
  ELSE games_result(call.game, call.state, call.move)

\* C6: calling result twice with an identical state and card yields
\* identical successor states and the same hands, stock and scores.
C6_ResultIsPure ==
  call.again =>
    /\ call.exc = "None"
    /\ state = FirstCall.state
    /\ game = FirstCall.game

(***************************************************************************)
(* C9.  A card that is not in the hand.                                    *)
(***************************************************************************)
\* C9: calling result of briscas.py with a card that is not in the hand of
\* the player to move signals IllegalMove, returns no successor state and
\* changes neither hands, stock nor scores.
C9_IllegalMoveSignalled ==
  (/\ engine = "briscas" /\ call.move # None /\ ~call.again
   /\ call.move \notin Range(Hand(call.game, call.state.to_move)))
    => call.exc = "IllegalMove" /\ state = call.state /\ game = call.game

(***************************************************************************)
(* C7, C8.  Replenishment.                                                 *)
(***************************************************************************)
\* the hand of p after the call without the card p played in the trick
Kept(p) == SelectSeq(Hand(call.game, p), LAMBDA x : x # (IF p = "A" THEN CardA ELSE CardB))

\* C7: in briscas.py, when a trick resolves while exactly one card is left
\* in the stock, the winner draws that card and the loser receives the
\* trump card; then both hands hold 3 cards, the stock is empty and the
\* trump card is in the loser's hand.
C7_LastStockCard ==
  (engine = "briscas" /\ TrickCall /\ Len(call.game.cards) = 1) =>
    LET w == state.to_move
        l == Other(w)
    IN /\ call.exc = "None" /\ w \in {"A", "B"}
       /\ Hand(game, w) = Append(Kept(w), call.game.cards[1])
       /\ Hand(game, l) = Append(Kept(l), state.board.trumpCard)
       /\ Len(game.playerAHand) = 3 /\ Len(game.playerBHand) = 3
       /\ game.cards = <<>>
       /\ ~TrumpUndrawn
       /\ state.board.trumpCard \in Range(Hand(game, l))
       /\ state.board.trumpCard \notin Range(Hand(game, w))

\* B won the trick that found one card in the stock, and A got the trump
C7_Witness ==
  /\ engine = "briscas" /\ TrickCall /\ Len(call.game.cards) = 1
  /\ state.to_move = "B"
  /\ game.playerAHand[3] = state.board.trumpCard

\* C8: in briscas.py, when a trick resolves while the stock holds two or
\* more cards, the winner takes the last card of the stock and the loser
\* the one before it: each hand gains one card, the stock loses two.
C8_WinnerDrawsFirst ==
  (engine = "briscas" /\ TrickCall /\ Len(call.game.cards) >= 2) =>
    LET w == state.to_move
        l == Other(w)
        n == Len(call.game.cards)
    IN /\ call.exc = "None" /\ w \in {"A", "B"}
       /\ Hand(game, w) = Append(Kept(w), call.game.cards[n])
       /\ Hand(game, l) = Append(Kept(l), call.game.cards[n - 1])
       /\ Len(Hand(game, w)) = Len(Hand(call.game, w))
       /\ Len(Hand(game, l)) = Len(Hand(call.game, l))
       /\ Len(Kept(w)) = 2 /\ Len(Kept(l)) = 2
       /\ game.cards = SubSeq(call.game.cards, 1, n - 2)

\* A won a trick that found three cards in the stock
C8_Witness ==
  /\ engine = "briscas" /\ TrickCall /\ Len(call.game.cards) = 3
  /\ state.to_move = "A" /\ Len(game.cards) = 1
  /\ game.playerAHand[3] = call.game.cards[3]
  /\ TrumpUndrawn

(***************************************************************************)
(* C10.  terminal_test.                                                    *)
(***************************************************************************)
\* the stock and both hands of the Briscas object g are empty
Exhausted(g) == g.cards = <<>> /\ g.playerAHand = <<>> /\ g.playerBHand = <<>>

\* C10: terminal_test(state) is true exactly when the state it is given
\* has an empty stock and two empty hands: for the state play_game passes
\* after a move (stock and hands of the game that is played), and for the
\* synthetic state the cutoff test of the search passes (stock and hands of
\* the sample's gameSim, which result has just brought to that state).
C10_TerminalTest ==
  /\ (engine = "briscas" /\ pc \in {"playing", "done"})
       => (pc = "done" <=> Exhausted(game))
  /\ (cutoff.called /\ cutoff.tested)
       => (cutoff.terminal <=> Exhausted(cutoff.sim))

(***************************************************************************)
(* C11.  actions.                                                          *)
(***************************************************************************)
\* C11: in every state of a game of briscas.py, actions(state) is the
\* current hand of the player state.to_move, card for card, and it is
\* empty exactly when that hand is empty.
C11_ActionsAreTheHand ==
  (engine = "briscas" /\ pc \in {"playing", "done"}) =>
    /\ state.to_move \in {"A", "B"}
    /\ actions(state) = Hand(game, state.to_move)
    /\ (actions(state) = <<>>) <=> (Hand(game, state.to_move) = <<>>)

\* B won a trick after the stock ran out and moves with the two cards it
\* has left, which are not the two cards of A
C11_Witness ==
  /\ engine = "briscas" /\ TrickCall /\ call.game.cards = <<>>
  /\ state.to_move = "B" /\ Len(actions(state)) = 2
  /\ game.playerAHand # game.playerBHand

(***************************************************************************)
(* C12.  alphabeta_full_search against minimax_decision.                   *)
(***************************************************************************)
\* alphabeta_full_search has run its last sample and returns best_action
SearchDone == search.pc = "sample" /\ search.i >= MaxSamples

\* the key minimax_decision computes for the action a of state
KeyOf(a) ==
  minimax_keys(game, state, 1)[CHOOSE n \in 1..Len(actions(state)) : actions(state)[n] = a]

\* C12: on an endgame (at most MaxEndgameCards cards in a hand, a tree both
\* searches exhaust) the action alphabeta_full_search selects is an action
\* of the state, and minimax_decision gives it the same value as the action
\* minimax_decision selects.
C12_SameValueAsMinimax ==
  SearchDone =>
    /\ search.best_action \in Range(actions(state))
    /\ KeyOf(search.best_action) = KeyOf(minimax_decision(game, state))

(***************************************************************************)
(* C13, C14.  The synthetic game of a sample.                              *)
(***************************************************************************)
\* setSimulationCards has just built gameSim, and no result was called on
\* it yet
SimBuilt == search.pc = "root" /\ search.a = 0

\* the simulated hand of A, the simulated hand of B, the simulated stock,
\* the trump card and the cards played in the real game
SimCards ==
  gameSim.playerAHand \o gameSim.playerBHand \o gameSim.cards
    \o <<gameSim.trump>> \o state.board.cardsPlayed

\* C13: in every synthetic game setSimulationCards builds, no card appears
\* twice among the simulated hand of A, the simulated hand of B, the
\* simulated stock, the trump card and the cards already played in the
\* real game.
C13_SimulationCardsDistinct ==
  SimBuilt => Cardinality(Range(SimCards)) = Len(SimCards)

\* C14: every synthetic game setSimulationCards builds agrees with what A
\* knows: its hand of A is the hand A holds in the real game at the moment
\* of the search, and no card already played in the real game is in its
\* hand of B or in its stock.
C14_SimulationKeepsPublicInformation ==
  SimBuilt =>
    /\ gameSim.playerAHand = game.playerAHand
    /\ Range(state.board.cardsPlayed)
         \cap (Range(gameSim.playerBHand) \cup Range(gameSim.cards)) = {}

(***************************************************************************)
(* C15, C16.  The action alphabeta_full_search returns.                    *)
(***************************************************************************)
\* the first of the (sample, action) pairs of the root loop whose value is
\* the highest of all
FirstBest ==
  CHOOSE n \in 1..Len(search.recorded) :
    /\ \A m \in 1..Len(search.recorded) : search.recorded[m].v <= search.recorded[n].v
    /\ \A m \in 1..(n - 1) : search.recorded[m].v < search.recorded[n].v

\* C15: when the samples are exhausted the search returns the action of
\* the (sample, action) pair that achieved the highest value of all pairs,
\* the first of them when several pairs achieved it.
C15_ReturnsFirstHighest ==
  SearchDone =>
    /\ Len(search.recorded) > 0
    /\ search.best_action = search.recorded[FirstBest].a

\* C16: in every state of a game that is not terminal and has A to move,
\* alphabeta_player returns a card of actions(state): never None, never a
\* card that is not in the hand of A.
C16_ReturnsAnAction ==
  (SearchDone /\ pc = "playing" /\ state.to_move = "A" /\ ~terminal_test(game, state))
    => /\ search.best_action # None
       /\ search.best_action \in Range(actions(state))

(***************************************************************************)
(* C17.  The interactive player.                                           *)
(***************************************************************************)
\* C17: whatever is typed (text that is no number, an integer outside
\* 0..n-1, a negative integer; n the number of legal moves), query_player
\* raises nothing and returns only actions(state)[i] for an accepted index
\* i with 0 <= i < n.
C17_QueryPlayerTotal ==
  /\ query.pc # "raised"
  /\ query.pc = "returned" =>
       /\ query.index \in 0..(Len(actions(state)) - 1)
       /\ query.move = actions(state)[query.index + 1]

(***************************************************************************)
(* C18.  The values of the search.                                         *)
(***************************************************************************)
\* C18: every value a call of max_value or min_value returns, and every
\* best score the root loop records with an action, is an integer from
\* -120 to 120; neither -infinity nor +infinity is the value of a node.
C18_ValuesWithinScores ==
  /\ search.pc = "return" => search.ret \in -120..120
  /\ (search.pc # "idle" /\ search.best_action # None)
       => search.best_score \in -120..120

(***************************************************************************)
(* C19.  The scores and the cards of the completed tricks.                 *)
(***************************************************************************)
\* the summed point value of the cards of a list
RECURSIVE SumPoints(_)
SumPoints(seq) == IF seq = <<>> THEN 0 ELSE seq[1][3] + SumPoints(Tail(seq))

\* C19 (as claimed): in every state the two scores sum to twice the summed
\* point value of the cards of the completed tricks.
C19_ScoresAreTwiceTheTricks ==
  engine = "briscas" =>
    game.playerAPoints + game.playerBPoints = 2 * SumPoints(state.board.cardsPlayed)

\* C19 (amended): in every state of a game of briscas.py the two scores sum
\* to the summed point value of the cards of the completed tricks, each
\* card counted once.
C19_ScoresAreTheTricks ==
  engine = "briscas" =>
    game.playerAPoints + game.playerBPoints = SumPoints(state.board.cardsPlayed)

\* three tricks or more are resolved and both players have scored
C19_Witness ==
  /\ engine = "briscas" /\ TrickCall
  /\ game.playerAPoints > 0 /\ game.playerBPoints > 0
  /\ SumPoints(state.board.cardsPlayed) = game.playerAPoints + game.playerBPoints
  /\ Len(state.board.cardsPlayed) >= 6

(***************************************************************************)
(* C20.  The sizes of the hands.                                           *)
(***************************************************************************)
\* a trick is about to start: no card is on the table and the game is not
\* over
TrickStart ==
  /\ state.board.playerAPlayedCard = None /\ state.board.playerBPlayedCard = None
  /\ ~terminal_test(game, state)

\* the tricks still to be played, the one about to start included
TricksLeft == (DeckSize - Len(state.board.cardsPlayed)) \div 2

\* each hand holds between 0 and 3 cards
HandSizes == Len(game.playerAHand) \in 0..3 /\ Len(game.playerBHand) \in 0..3

\* C20 (as claimed): each hand holds between 0 and 3 cards, and exactly 3
\* at the start of every trick except the last trick of the game.
C20_ThreeCardsButLastTrick ==
  engine = "briscas" =>
    /\ HandSizes
    /\ (TrickStart /\ TricksLeft > 1) =>
         Len(game.playerAHand) = 3 /\ Len(game.playerBHand) = 3

\* C20 (amended): in briscas.py each hand holds between 0 and 3 cards; at
\* the start of a trick the two hands are equally long and hold 3 cards,
\* except at the last two tricks of the game, which start with 2 cards and
\* with 1 card in each hand.
C20_ThreeCardsButLastTwoTricks ==
  engine = "briscas" =>
    /\ HandSizes
    /\ TrickStart =>
         /\ Len(game.playerAHand) = Min(3, TricksLeft)
         /\ Len(game.playerBHand) = Min(3, TricksLeft)

\* the second-to-last trick is about to start, with 2 cards in each hand
C20_Witness ==
  /\ engine = "briscas" /\ TrickStart /\ TricksLeft = 2
  /\ Len(game.playerAHand) = 2 /\ Len(game.playerBHand) = 2
  /\ game.cards = <<>>

(***************************************************************************)
(* C21.  The cards on the table.                                           *)
(***************************************************************************)
\* the cards of the board of state that are on the table
OnTable ==
  {p \in {"A", "B"} :
     (IF p = "A" THEN state.board.playerAPlayedCard
      ELSE state.board.playerBPlayedCard) # None}

\* the latest call of result was given the first card of a trick
OpeningCall == call.move # None /\ FirstHalf(call.state)

\* C21: in briscas.py exactly one of playerAPlayedCard / playerBPlayedCard
\* is set after the first half-move of a trick (the card of the player who
\* moved), neither is set after the initial deal or after a resolution, and
\* no returned state has both set.
C21_PlayedCardsOfATrick ==
  engine = "briscas" =>
    /\ OnTable # {"A", "B"}
    /\ OpeningCall =>
         /\ OnTable = {call.state.to_move}
         /\ call.move \in {state.board.playerAPlayedCard, state.board.playerBPlayedCard}
    /\ (call.move = None \/ TrickCall) => OnTable = {}

\* B opened a trick after some trick was resolved: only its card is on the
\* table
C21_Witness ==
  /\ engine = "briscas" /\ OpeningCall /\ call.state.to_move = "B"
  /\ state.board.cardsPlayed # <<>>
  /\ state.board.playerBPlayedCard = call.move
  /\ state.board.playerAPlayedCard = None

(***************************************************************************)
(* C22.  The GameState given to result, after the call.  In briscas.py the *)
(* board of the successor is a shallow copy of the board of the argument:  *)
(* the two share the list board['cardsPlayed'], which result appends to.   *)
(* In games.py they also share board['cardsNotPlayed'], and the hands of   *)
(* the Briscas object, which result changes in place.                      *)
(***************************************************************************)
\* the GameState object given to the latest call of result, as it is after
\* the call
Predecessor ==
  IF engine = "briscas"
  THEN [call.state EXCEPT !.board.cardsPlayed = state.board.cardsPlayed]
  ELSE games_Shared(call.state, game, state.board.cardsPlayed,
                    state.board.cardsNotPlayed)

\* C22: after result has returned a successor, every field of the state it
\* was given still has the value it had before the call.
C22_StatesNeverMutated ==
  (call.move # None /\ call.exc = "None") => Predecessor = call.state

(***************************************************************************)
(* C23.  result on a terminal state.                                       *)
(***************************************************************************)
\* the latest call of result was given a terminal state
CallOnTerminal == call.move # None /\ terminal_test(call.game, call.state)

\* C23: a call of result on a terminal state (stock and both hands empty)
\* fails: it raises instead of returning a successor state.
C23_TerminalCallFails == CallOnTerminal => call.exc # "None"

(***************************************************************************)
(* C24.  The score of a trick.                                             *)
(***************************************************************************)
\* C24: in briscas.py every resolution of a trick adds the point values of
\* the two cards played to the score of the winner (the player who moves
\* next) and leaves the score of the loser unchanged.
C24_WinnerScoresBothCards ==
  (engine = "briscas" /\ TrickCall) =>
    LET w == state.to_move
        l == Other(w)
    IN /\ w \in {"A", "B"}
       /\ Points(game, w) = Points(call.game, w) + CardA[3] + CardB[3]
       /\ Points(game, l) = Points(call.game, l)
       /\ state.utility = game.playerAPoints

\* B won a trick worth points after A had scored
C24_Witness ==
  /\ engine = "briscas" /\ TrickCall /\ state.to_move = "B"
  /\ CardA[3] > 0 /\ CardB[3] > 0
  /\ call.game.playerAPoints > 0
  /\ game.playerBPoints = call.game.playerBPoints + CardA[3] + CardB[3]
  /\ game.playerAPoints = call.game.playerAPoints

(***************************************************************************)
(* C25.  The initial deal.                                                 *)
(***************************************************************************)
\* no call of result was made yet: the state is the one initGame built
Initial == call.move = None

\* the cards of the Briscas object: the hands, the trump and the stock
Dealing == game.playerAHand \o game.playerBHand \o <<game.trump>> \o game.cards

\* the cards of suit s among those of a list
OfSuit(seq, s) == SelectSeq(seq, LAMBDA c : c[2] = s)

\* C25: the state initGame builds partitions a deck of 40 distinct cards, 10
\* ranks and 30 points in each of the 4 suits and 120 points in all, into
\* hand A of 3 cards, hand B of 3 cards, one trump card and a stock of 33
\* cards, with A to move, no card played, no leader and both scores 0.
C25_InitialDeal ==
  (engine = "briscas" /\ Initial) =>
    /\ Len(Dealing) = 40
    /\ Cardinality(Range(Dealing)) = 40
    /\ \A i \in 1..Len(Suits) :
         /\ Len(OfSuit(Dealing, Suits[i])) = 10
         /\ Cardinality({c[1] : c \in Range(OfSuit(Dealing, Suits[i]))}) = 10
         /\ SumPoints(OfSuit(Dealing, Suits[i])) = 30
    /\ Cardinality({c[2] : c \in Range(Dealing)}) = 4
    /\ SumPoints(Dealing) = 120
    /\ Len(game.playerAHand) = 3 /\ Len(game.playerBHand) = 3
    /\ Len(game.cards) = 33
    /\ state.board.trumpCard = game.trump
    /\ state.to_move = "A" /\ state.moves = game.playerAHand
    /\ state.board.cardsPlayed = <<>>
    /\ state.board.playerAPlayedCard = None /\ state.board.playerBPlayedCard = None
    /\ state.board.leadingPlayer = "None"
    /\ game.playerAPoints = 0 /\ game.playerBPoints = 0 /\ state.utility = 0

\* a deal from a shuffled deck that does not take the first cards
C25_Witness ==
  /\ engine = "briscas" /\ Initial
  /\ game.playerAHand[1] # Deck[1]
  /\ game.cards[1] # Deck[1]
  /\ Len(game.cards) = 33

(***************************************************************************)
(* C26.  The first half-move of a trick.                                   *)
(***************************************************************************)
\* C26: in briscas.py the first half-move of a trick returns a state with
\* the card of the mover on the table, the other player to move (with its
\* hand as moves) and the mover as leader; the Briscas object (both hands,
\* the stock, both scores, the trump card) and the rest of the board are
\* unchanged.
C26_FirstHalfMove ==
  (engine = "briscas" /\ OpeningCall) =>
    LET p == call.state.to_move
    IN /\ call.exc = "None"
       /\ state.to_move = Other(p)
       /\ state.board.leadingPlayer = p
       /\ state.board = [call.state.board EXCEPT
                           !.leadingPlayer = p,
                           !.playerAPlayedCard = IF p = "A" THEN call.move ELSE @,
                           !.playerBPlayedCard = IF p = "B" THEN call.move ELSE @]
       /\ game = call.game
       /\ state.moves = Hand(game, Other(p))
       /\ state.utility = game.playerAPoints

\* B, winner of a trick, opens the next one with a card of its hand, which
\* stays in the hand
C26_Witness ==
  /\ engine = "briscas" /\ OpeningCall /\ call.state.to_move = "B"
  /\ call.state.board.cardsPlayed # <<>>
  /\ state.to_move = "A" /\ state.board.leadingPlayer = "B"
  /\ call.move \in Range(game.playerBHand)
  /\ game.playerBPoints > 0

(***************************************************************************)
(* C27.  Who moves after a trick.                                          *)
(***************************************************************************)
\* the winner of the trick of the latest call by the comparisons of result:
\* two cards of one suit compare by value, then by number; else a card of
\* the trump suit wins; else the player who led
WinnerOfTrick ==
  IF CardA[2] = CardB[2]
  THEN IF CardA[3] # CardB[3]
       THEN (IF CardA[3] > CardB[3] THEN "A" ELSE "B")
       ELSE (IF CardA[1] > CardB[1] THEN "A" ELSE "B")
  ELSE IF CardA[2] = TrumpSuit THEN "A"
  ELSE IF CardB[2] = TrumpSuit THEN "B"
  ELSE Leader

\* after a resolution the winner of the trick is to move and the leader is
\* reset
WinnerToMove ==
  (engine = "briscas" /\ TrickCall) =>
    /\ state.to_move = WinnerOfTrick
    /\ Won(state.to_move, CardA[3] + CardB[3])
    /\ state.board.leadingPlayer \notin {"A", "B"}

\* the step that follows a resolution is the opening play of the winner,
\* who becomes the leader and stays the leader until the trick resolves
WinnerLeads ==
  /\ (engine = "briscas" /\ TrickCall) =>
       /\ OpeningCall'
       /\ call'.state.to_move = state.to_move
       /\ state'.board.leadingPlayer = state.to_move
  /\ (engine = "briscas" /\ OpeningCall) =>
       /\ TrickCall'
       /\ call'.state.board.leadingPlayer = state.board.leadingPlayer

\* C27: in briscas.py, after every resolution of a trick the winner of the
\* trick is the player to move and the leader field is neither 'A' nor 'B';
\* the next call is the opening play of that winner, who is the leader of
\* the next trick.
C27_WinnerLeadsNextTrick == []WinnerToMove /\ [][WinnerLeads]_vars

\* B, who won the second trick or a later one, has opened the next trick
\* and is its leader
C27_Witness ==
  /\ engine = "briscas" /\ OpeningCall
  /\ call.state.to_move = "B" /\ state.board.leadingPlayer = "B"
  /\ call.state.board.leadingPlayer \notin {"A", "B"}
  /\ Len(state.board.cardsPlayed) >= 4

(***************************************************************************)
(* C28.  A trick that finds the stock empty.                               *)
(***************************************************************************)
\* C28: in briscas.py, when a trick resolves while the stock is empty, the
\* call returns, nothing is drawn (each hand is the hand at the start of
\* the trick without the card played, one card shorter), the stock stays
\* empty and the winner gains the points of the two cards.
C28_EmptyStock ==
  (engine = "briscas" /\ TrickCall /\ call.game.cards = <<>>) =>
    /\ call.exc = "None"
    /\ state.to_move \in {"A", "B"}
    /\ \A p \in {"A", "B"} :
         /\ Hand(game, p) = Kept(p)
         /\ Len(Hand(game, p)) = Len(Hand(call.game, p)) - 1
    /\ game.cards = <<>>
    /\ Won(state.to_move, CardA[3] + CardB[3])

\* the second-to-last trick, worth points: both hands go from 2 cards to 1
C28_Witness ==
  /\ engine = "briscas" /\ TrickCall /\ call.game.cards = <<>>
  /\ Len(call.game.playerAHand) = 2 /\ Len(game.playerAHand) = 1
  /\ Len(call.game.playerBHand) = 2 /\ Len(game.playerBHand) = 1
  /\ CardA[3] + CardB[3] > 0
  /\ pc = "playing"

(***************************************************************************)
(* C29.  The trump card.                                                   *)
(***************************************************************************)
\* the trump card is in a hand
TrumpInHand ==
  state.board.trumpCard \in Range(game.playerAHand) \cup Range(game.playerBHand)

\* the trump card is in neither hand while the stock holds two cards or
\* more, and the stock is never empty while the trump card is set aside
TrumpSetAside ==
  engine = "briscas" =>
    /\ Len(game.cards) >= 2 => (~TrumpInHand /\ TrumpUndrawn)
    /\ game.cards = <<>> => ~TrumpUndrawn

\* the trump card enters a hand at the resolution that finds one card in
\* the stock, and at no other step
TrumpEntersOnce ==
  engine = "briscas" =>
    ((~TrumpInHand /\ TrumpInHand') <=>
       (TrickCall' /\ Len(game.cards) = 1 /\ call'.game = game))

\* C29: in every game of briscas.py the trump card is in neither hand
\* while the stock holds two cards or more, the stock is never empty while
\* the trump card is undrawn, and the trump card enters a hand exactly
\* once, at the resolution that finds exactly one card in the stock.
C29_TrumpDrawnLast == []TrumpSetAside /\ [][TrumpEntersOnce]_vars

\* the trump card was drawn with the last card of the stock, played in a
\* later trick, and is in no hand any more
C29_Witness ==
  /\ engine = "briscas" /\ game.cards = <<>>
  /\ ~TrumpInHand
  /\ state.board.trumpCard \in Range(state.board.cardsPlayed)
  /\ pc = "playing"

(***************************************************************************)
(* C30.  The value of a cutoff node.                                       *)
(***************************************************************************)
\* the points A wins when move is played in state s: those of the trick,
\* when the move resolves it and A wins it
StepPoints(s, move) ==
  IF FirstHalf(s) THEN 0
  ELSE LET a == IF s.to_move = "A" THEN move ELSE s.board.playerAPlayedCard
           b == IF s.to_move = "B" THEN move ELSE s.board.playerBPlayedCard
       IN IF TrickWinner(a, b, s.board.trumpCard, s.board.leadingPlayer).winner = "A"
          THEN TrickPoints(a, b) ELSE 0

\* the points A wins on the moves in progress of the calls stack[k], ..
RECURSIVE FramePoints(_)
FramePoints(k) ==
  IF k > Len(stack) THEN 0
  ELSE StepPoints(stack[k].state, actions(stack[k].state)[stack[k].idx + 1])
         + FramePoints(k + 1)

\* the points A wins on the path from the root of the search to the node
\* that has just returned to the innermost call in progress
PathPoints ==
  StepPoints(search.state, actions(search.state)[search.a + 1]) + FramePoints(1)

\* a node has just been cut off and has returned its value
CutoffReturned ==
  /\ search.pc = "return"
  /\ cutoff.called /\ (cutoff.depth > d \/ cutoff.terminal)
  /\ Len(stack) = cutoff.depth

\* C30: the value of a cutoff node is the score of A at the root of the
\* search plus the points A won in the tricks on the path from the root to
\* the node.
C30_CutoffValueIsPathScore ==
  CutoffReturned => search.ret = game.playerAPoints + PathPoints

(***************************************************************************)
(* C31.  The samples of a search.                                          *)
(***************************************************************************)
\* the values recorded by the search in progress
Recorded == {search.recorded[n] : n \in 1..Len(search.recorded)}

\* C31: the value recorded for an action in a sample depends only on the
\* cards of that sample: two samples of one search that were dealt the same
\* cards record the same value for every action, whichever ran first.
C31_SamplesIndependent ==
  \A r \in Recorded, q \in Recorded :
    (r.j = q.j /\ r.a = q.a) => r.v = q.v

(***************************************************************************)
(* C32.  The length of a game.                                             *)
(***************************************************************************)
\* the calls of result made so far in the game: two for every completed
\* trick and one for a card on the table
Calls == Len(state.board.cardsPlayed) + Cardinality(OnTable)

\* the game is over after 40 calls and not before, and until then a move
\* can be taken from actions(state)
FortyCalls ==
  engine = "briscas" =>
    /\ Calls \in 0..DeckSize
    /\ terminal_test(game, state) <=> Calls = DeckSize
    /\ pc = (IF Calls = DeckSize THEN "done" ELSE "playing")
    /\ pc = "playing" => actions(state) # <<>>
    /\ call.move # None => Calls = Len(call.state.board.cardsPlayed)
                                     + (IF FirstHalf(call.state) THEN 1 ELSE 2)

\* C32: from the initial deal of briscas.py, with moves taken from
\* actions(state), terminal_test is false after each of the first 39 calls
\* of result and true after the 40th, which resolves the 20th trick, and
\* every game gets there.
C32_GameEndsAfter40Calls ==
  /\ []FortyCalls
  /\ (engine = "briscas") => <>(pc = "done" /\ Calls = 40)

\* the 40th call has resolved the last trick of a game in which a player
\* once chose another card than its first
C32_Witness ==
  /\ engine = "briscas" /\ pc = "done" /\ TrickCall
  /\ Len(state.board.cardsPlayed) = 40
  /\ ~terminal_test(call.game, call.state)
  /\ choices = 1

(***************************************************************************)
(* C33.  The search and the game that is played.                           *)
(***************************************************************************)
\* a step of alphabeta_full_search, from its call to its last sample
SearchStep == search'.pc # "idle"

\* C33: no step of alphabeta_full_search(state, game) changes the Briscas
\* object of the game (hands, stock, trump, scores) or a field of the state
\* it was given; when it returns, play_game plays the move on that object
\* and that state.
C33_SearchLeavesGameUnchanged ==
  [][/\ SearchStep => (game' = game /\ state' = state /\ pc' = pc)
     /\ (search.pc # "idle" /\ search'.pc = "idle") =>
          (call'.game = game /\ call'.state = state)]_vars

\* a search is about to return: its sample has scored tricks and its copy
\* of state has got their cards, the game and state have not
C33_Witness ==
  /\ SearchDone
  /\ gameSim.playerAPoints + gameSim.playerBPoints > 0
  /\ search.state.board.cardsPlayed # state.board.cardsPlayed
  /\ game.playerAPoints + game.playerBPoints
       = SumPoints(state.board.cardsPlayed)
  /\ state.board.cardsPlayed # <<>>

(***************************************************************************)
(* C34.  The trump card, once drawn, is played.                            *)
(***************************************************************************)
\* the latest call of result resolved, or was to resolve, a trick in which
\* the trump card was played
TrumpPlayed == TrickCall /\ call.state.board.trumpCard \in {CardA, CardB}

\* C34: in briscas.py and in games.py, the trick in which the player who
\* was given the trump card plays it resolves without error: a player wins
\* it and scores, and the trump card is in no hand any more.
C34_TrumpCardIsPlayable ==
  TrumpPlayed =>
    /\ call.exc = "None"
    /\ state.to_move \in {"A", "B"}
    /\ Won(state.to_move, CardA[3] + CardB[3])
    /\ call.state.board.trumpCard
         \notin Range(game.playerAHand) \cup Range(game.playerBHand)

(***************************************************************************)
(* C35.  The cards A has not seen.                                         *)
(***************************************************************************)
\* the stock and the hand of B, without the trump card
Unseen ==
  (Range(game.cards) \cup Range(game.playerBHand)) \ {state.board.trumpCard}

\* C35: in every state of a game board['cardsNotPlayed'] holds exactly the
\* cards of the stock and of the hand of B (the trump card apart), each
\* once: no card of the hand of A and no card of a completed trick.
C35_CardsNotPlayedAreUnseen ==
  pc # "crashed" =>
    /\ Range(state.board.cardsNotPlayed) = Unseen
    /\ Cardinality(Range(state.board.cardsNotPlayed)) = Len(state.board.cardsNotPlayed)
    /\ Range(state.board.cardsNotPlayed) \cap Range(game.playerAHand) = {}
    /\ Range(state.board.cardsNotPlayed) \cap Range(state.board.cardsPlayed) = {}

====
